---- MODULE Spec2Model ----
(***************************************************************************)
(* A model of alsein-parsers: the arena (pool.rs), the error algebra and   *)
(* the combinator core (parsers.rs), and the sequence view (set.rs).       *)
(*                                                                         *)
(* Four specifications share the module:                                   *)
(*   SpecPool   threads calling Pool::add / Pool::remove, then Drop        *)
(*   SpecErr    Error values built with + and |, range() and similarity()  *)
(*   SpecAlg    Error values combined with + and |                         *)
(*   SpecParse  parsers built through ParserContext, then Parser::parse    *)
(***************************************************************************)
EXTENDS Integers, Sequences, FiniteSets, TLC

VARIABLES
    \* ---- pool.rs ----
    owner,      \* heap: address -> "none" | "caller" | "pool" (who owns the Box)
    content,    \* heap: address -> the first two words stored in the object
    values,     \* Pool.values: HashMap<(usize, usize), unsafe fn((usize, usize))>
    lock,       \* the Mutex around values: 0 = free, otherwise the holding thread
    pc,         \* thread -> position inside add / remove
    arg,        \* thread -> the raw pointer the call works on
    ret,        \* thread -> what the last remove returned
    dropped,    \* the Pool has been dropped
    destroyed,  \* address -> number of Box::from_raw destructions run on it by Drop
    returned,   \* history: the objects remove gave back to the caller
    wild,       \* number of Box::from_raw destructions run on a non-object address
    \* ---- parsers.rs, Error ----
    stack,      \* the Error values the client holds
    obs,        \* the last Error observed with range() and similarity()
    \* ---- parsers.rs, parsers ----
    parsers,    \* the parser handles the client holds
    input,      \* the input view of the last parse
    res         \* the result of the last parse

poolVars  == <<owner, content, values, lock, pc, arg, ret, dropped, destroyed,
              wild, returned>>
errVars   == <<stack, obs>>
parseVars == <<parsers, input, res>>
vars      == <<poolVars, errVars, parseVars>>
\* a step of one part leaves the other parts alone
PoolOnly  == UNCHANGED <<errVars, parseVars>>
ErrOnly   == UNCHANGED <<poolVars, parseVars>>
ParseOnly == UNCHANGED <<poolVars, errVars>>

(***************************************************************************)
(* pool.rs                                                                 *)
(***************************************************************************)
MaxObjs   == 2
Threads   == {1, 2}
Addr      == 1..MaxObjs
\* a machine word: 0 is a word that is no heap address, the others are addresses
Word      == 0..MaxObjs
\* the first two words of an object, as read through a *mut (usize, usize)
Content   == Word \X {0, 1}
\* the T of drop_ptr::<T>
Types     == {"closure", "AddPP"}

\* stored_ptr: ptr_extra = (ptr, 0); the transmuted &ptr_extra is dereferenced
\* TWICE: the first dereference loads ptr, the second one loads the
\* (usize, usize) found AT ptr, i.e. the first two words of the object.
stored_ptr(ptr) == content[ptr]

\* drop_ptr: the key is reinterpreted as a *mut T, and the Box at that address
\* is rebuilt and dropped.  The address is the key's first word.
drop_ptr(key) == key[1]

\* HashMap::insert
insert(m, k, v) == [x \in (DOMAIN m) \cup {k} |-> IF x = k THEN v ELSE m[x]]
\* HashMap::remove (the map part)
removeKey(m, k) == [x \in (DOMAIN m) \ {k} |-> m[x]]

\* Box::new(raw): the caller allocates an object; its first words are whatever
\* the object holds (and, for objects shorter than two words, whatever follows).
Box_new(t, a, c) ==
    /\ ~dropped /\ pc[t] = "idle"
    /\ owner[a] = "none"
    /\ owner' = [owner EXCEPT ![a] = "caller"]
    /\ content' = [content EXCEPT ![a] = c]
    /\ UNCHANGED <<values, lock, pc, arg, ret, dropped, destroyed, wild, returned>>

\* Pool::add, line 28: Box::into_raw(item)
add_into_raw(t, a) ==
    /\ ~dropped /\ pc[t] = "idle"
    /\ owner[a] = "caller"
    /\ \A u \in Threads : pc[u] # "idle" => arg[u] # a
    /\ pc' = [pc EXCEPT ![t] = "add_lock"]
    /\ arg' = [arg EXCEPT ![t] = a]
    /\ UNCHANGED <<owner, content, values, lock, ret, dropped, destroyed, wild, returned>>

\* Pool::add, line 29: self.values.lock()
add_lock(t) ==
    /\ pc[t] = "add_lock" /\ lock = 0
    /\ lock' = t
    /\ pc' = [pc EXCEPT ![t] = "add_insert"]
    /\ UNCHANGED <<owner, content, values, arg, ret, dropped, destroyed, wild, returned>>

\* Pool::add, lines 30-32: values.insert(stored_ptr(ptr), drop_ptr::<T>), the
\* guard is released on return
add_insert(t, ty) ==
    /\ pc[t] = "add_insert" /\ lock = t
    /\ values' = insert(values, stored_ptr(arg[t]), ty)
    /\ owner' = [owner EXCEPT ![arg[t]] = "pool"]
    /\ lock' = 0
    /\ pc' = [pc EXCEPT ![t] = "idle"]
    /\ returned' = returned \ {arg[t]}
    /\ UNCHANGED <<content, arg, ret, dropped, destroyed, wild>>

\* Pool::remove, line 37: the key is computed from the reference
remove_stored_ptr(t, a) ==
    /\ ~dropped /\ pc[t] = "idle"
    /\ owner[a] # "none"
    /\ \A u \in Threads : pc[u] # "idle" => arg[u] # a
    /\ pc' = [pc EXCEPT ![t] = "rm_lock"]
    /\ arg' = [arg EXCEPT ![t] = a]
    /\ UNCHANGED <<owner, content, values, lock, ret, dropped, destroyed, wild, returned>>

\* Pool::remove, line 38: self.values.lock()
remove_lock(t) ==
    /\ pc[t] = "rm_lock" /\ lock = 0
    /\ lock' = t
    /\ pc' = [pc EXCEPT ![t] = "rm_remove"]
    /\ UNCHANGED <<owner, content, values, arg, ret, dropped, destroyed, wild, returned>>

\* Pool::remove, line 39: values.remove(&ptr).map(|_| Box::from_raw(item))
remove_remove(t) ==
    /\ pc[t] = "rm_remove" /\ lock = t
    /\ LET key == stored_ptr(arg[t]) IN
        IF key \in DOMAIN values
        THEN /\ values' = removeKey(values, key)
             /\ owner' = [owner EXCEPT ![arg[t]] = "caller"]
             /\ ret' = [ret EXCEPT ![t] = "Some"]
             /\ returned' = returned \cup {arg[t]}
        ELSE /\ UNCHANGED <<values, owner, returned>>
             /\ ret' = [ret EXCEPT ![t] = "None"]
    /\ lock' = 0
    /\ pc' = [pc EXCEPT ![t] = "idle"]
    /\ UNCHANGED <<content, arg, dropped, destroyed, wild>>

\* impl Drop for Pool: drop(&mut self) needs the Pool unborrowed; every entry's
\* destructor is called on the entry's key.
Pool_drop ==
    /\ ~dropped
    /\ \A t \in Threads : pc[t] = "idle"
    /\ dropped' = TRUE
    /\ destroyed' = [a \in Addr |->
            IF owner[a] = "none" THEN 0
            ELSE Cardinality({k \in DOMAIN values : drop_ptr(k) = a})]
    /\ wild' = Cardinality({k \in DOMAIN values :
            drop_ptr(k) \notin Addr \/ owner[drop_ptr(k)] = "none"})
    /\ UNCHANGED <<owner, content, values, lock, pc, arg, ret, returned>>

PoolNext ==
    \/ \E t \in Threads, a \in Addr, c \in Content : Box_new(t, a, c) /\ PoolOnly
    \/ \E t \in Threads, a \in Addr : add_into_raw(t, a) /\ PoolOnly
    \/ \E t \in Threads : add_lock(t) /\ PoolOnly
    \/ \E t \in Threads, ty \in Types : add_insert(t, ty) /\ PoolOnly
    \/ \E t \in Threads, a \in Addr : remove_stored_ptr(t, a) /\ PoolOnly
    \/ \E t \in Threads : remove_lock(t) /\ PoolOnly
    \/ \E t \in Threads : remove_remove(t) /\ PoolOnly
    \/ Pool_drop /\ PoolOnly

(***************************************************************************)
(* parsers.rs: Error, range(), similarity(), + and |                       *)
(*                                                                         *)
(* An Error is a record [tag, a, b, l]:                                    *)
(*   Single(sim, pos)    tag "Single",  a = sim (a whole number), b = pos  *)
(*   Add(l) / Or(l)      tag "Add" / "Or", l = the children                *)
(*   Succeed(s..e)       tag "Succeed", a = s, b = e                       *)
(*   Hinted(inner, msg)  tag "Hinted",  l = <<inner>> (the text is unused) *)
(* An f64 is a record [k, n, d]: the fraction n/d ("num"), +infinity       *)
(* ("inf"), NaN ("nan"); "panic" stands for an evaluation that panicked.   *)
(* A Range<usize> is [ok, start, end]; ok = FALSE: the evaluation panicked *)
(***************************************************************************)
Single(sim, pos) == [tag |-> "Single", a |-> sim, b |-> pos, l |-> <<>>]
AddList(l)       == [tag |-> "Add", a |-> 0, b |-> 0, l |-> l]
OrList(l)        == [tag |-> "Or", a |-> 0, b |-> 0, l |-> l]
Succeed(s, e)    == [tag |-> "Succeed", a |-> s, b |-> e, l |-> <<>>]
Hinted(inner)    == [tag |-> "Hinted", a |-> 0, b |-> 0, l |-> <<inner>>]

Num(n, d)  == [k |-> "num", n |-> n, d |-> d]
Inf        == [k |-> "inf", n |-> 1, d |-> 0]
NaN        == [k |-> "nan", n |-> 0, d |-> 0]
SimPanic   == [k |-> "panic", n |-> 0, d |-> 0]
Rng(s, e)  == [ok |-> TRUE, start |-> s, end |-> e]
RngPanic   == [ok |-> FALSE, start |-> 0, end |-> 0]

\* <Range<usize> as ExactSizeIterator>::len
RangeLen(r) == IF r.end > r.start THEN r.end - r.start ELSE 0

\* f64 + f64
FAdd(x, y) ==
    IF x.k = "panic" \/ y.k = "panic" THEN SimPanic
    ELSE IF x.k = "nan" \/ y.k = "nan" THEN NaN
    ELSE IF x.k = "inf" \/ y.k = "inf" THEN Inf
    ELSE Num(x.n * y.d + y.n * x.d, x.d * y.d)

\* f64 / (len as f64)
FDiv(x, len) ==
    IF x.k \in {"panic", "nan", "inf"} THEN x
    ELSE IF len = 0 THEN (IF x.n = 0 THEN NaN ELSE Inf)
    ELSE Num(x.n, x.d * len)

\* f64::partial_cmp: "Less", "Equal", "Greater", or "None" when a side is NaN
partial_cmp(x, y) ==
    IF x.k = "nan" \/ y.k = "nan" THEN "None"
    ELSE IF x.k = "inf" THEN (IF y.k = "inf" THEN "Equal" ELSE "Greater")
    ELSE IF y.k = "inf" THEN "Less"
    ELSE IF x.n * y.d < y.n * x.d THEN "Less"
    ELSE IF x.n * y.d > y.n * x.d THEN "Greater"
    ELSE "Equal"

\* (variant) a fold step that keeps the earlier of two equal elements
max_by_keep_first(ord) == ord \in {"Greater", "Equal"}

\* Iterator::max_by's fold step: the earlier element is kept only when it
\* compares Greater, so the LAST of several equal maxima is returned.
max_by_keep(ord) == ord = "Greater"

\* Iterator::max_by over the similarities sims, with the comparator
\* |x, y| x.partial_cmp(y).unwrap().  The index of the chosen element, or 0
\* when the comparator panicked (a NaN, or a similarity() that panicked).
RECURSIVE max_by(_, _, _)
max_by(sims, i, best) ==
    IF i > Len(sims) THEN best
    ELSE IF sims[best].k \in {"nan", "panic"} \/ sims[i].k \in {"nan", "panic"} THEN 0
    ELSE max_by(sims, i + 1,
                IF max_by_keep(partial_cmp(sims[best], sims[i])) THEN best ELSE i)

\* Iterator::sum::<f64>
RECURSIVE FSum(_, _)
FSum(sims, i) == IF i > Len(sims) THEN Num(0, 1) ELSE FAdd(sims[i], FSum(sims, i + 1))

RECURSIVE range(_), similarity(_)
\* Error::range
range(e) ==
    CASE e.tag = "Single" -> Rng(e.b, e.b + 1)
      [] e.tag = "Add" ->
            IF Len(e.l) = 0 THEN RngPanic
            ELSE LET f == range(e.l[1])
                     t == range(e.l[Len(e.l)])
                 IN IF f.ok /\ t.ok THEN Rng(f.start, t.end) ELSE RngPanic
      [] e.tag = "Or" ->
            IF Len(e.l) = 0 THEN RngPanic
            ELSE IF Len(e.l) = 1 THEN range(e.l[1])
            ELSE LET i == max_by([j \in 1..Len(e.l) |-> similarity(e.l[j])], 2, 1)
                 IN IF i = 0 THEN RngPanic ELSE range(e.l[i])
      [] e.tag = "Succeed" -> Rng(e.a, e.b)
      [] OTHER -> range(e.l[1])

\* Error::similarity
similarity(e) ==
    CASE e.tag = "Single" -> Num(e.a, 1)
      [] e.tag = "Add" ->
            LET r == range(e)
            IN IF ~r.ok THEN SimPanic
               ELSE FDiv(FSum([j \in 1..Len(e.l) |-> similarity(e.l[j])], 1), RangeLen(r))
      [] e.tag = "Or" ->
            IF Len(e.l) = 0 THEN SimPanic
            ELSE LET sims == [j \in 1..Len(e.l) |-> similarity(e.l[j])]
                     i == max_by(sims, 2, 1)
                 IN IF i = 0 THEN SimPanic ELSE sims[i]
      [] e.tag = "Succeed" -> Num(1, 1)
      [] OTHER -> similarity(e.l[1])

\* (variant) the (e1, Add(l2)) arm pushes e1 instead of inserting it at 0
Error_add_push(e1, e2) ==
    CASE e1.tag = "Add" /\ e2.tag = "Add" -> AddList(e1.l \o e2.l)
      [] e1.tag = "Add" /\ e2.tag # "Add" -> AddList(Append(e1.l, e2))
      [] e1.tag # "Add" /\ e2.tag = "Add" -> AddList(Append(e2.l, e1))
      [] OTHER -> AddList(<<e1, e2>>)

\* impl Add for Error
Error_add(e1, e2) ==
    CASE e1.tag = "Add" /\ e2.tag = "Add" -> AddList(e1.l \o e2.l)
      [] e1.tag = "Add" /\ e2.tag # "Add" -> AddList(Append(e1.l, e2))
      [] e1.tag # "Add" /\ e2.tag = "Add" -> AddList(<<e1>> \o e2.l)
      [] OTHER -> AddList(<<e1, e2>>)

\* impl BitOr for Error
Error_bitor(e1, e2) ==
    CASE e1.tag = "Or" /\ e2.tag = "Or" -> OrList(e1.l \o e2.l)
      [] e1.tag = "Or" /\ e2.tag # "Or" -> OrList(Append(e1.l, e2))
      [] e1.tag # "Or" /\ e2.tag = "Or" -> OrList(<<e1>> \o e2.l)
      [] OTHER -> OrList(<<e1, e2>>)

\* ---- the client of the Error type ----
MaxSize   == 3    \* leaves and Hinted wrappers held at once when observing
MaxStack  == 2    \* Error values held at once when observing
AlgSize   == 5    \* leaves and Hinted wrappers held at once when combining
AlgStack  == 3    \* Error values held at once when combining
Scores    == {0, 1}       \* Single similarities, all within [0, 1]
Positions == 0..1         \* the positions of Single leaves
Spans     == {<<0, 1>>}   \* the ranges of Succeed leaves
NoObs     == [e |-> Succeed(0, 0), seen |-> FALSE, range |-> RngPanic, sim |-> SimPanic]

RECURSIVE Size(_), SizeAll(_, _)
SizeAll(l, i) == IF i > Len(l) THEN 0 ELSE Size(l[i]) + SizeAll(l, i + 1)
Size(e) == IF e.tag \in {"Single", "Succeed"} THEN 1
           ELSE IF e.tag = "Hinted" THEN 1 + Size(e.l[1])
           ELSE SizeAll(e.l, 1)
Top == stack[Len(stack)]
Below == stack[Len(stack) - 1]
Pop(n) == SubSeq(stack, 1, Len(stack) - n)

\* Error::Single(sim, pos), while fewer than ms values of sz leaves are held
new_Single(s, p, ms, sz) ==
    /\ Len(stack) < ms /\ SizeAll(stack, 1) < sz
    /\ stack' = Append(stack, Single(s, p))
    /\ obs' = NoObs

\* Error::Succeed(s..e)
new_Succeed(s, e, ms, sz) ==
    /\ Len(stack) < ms /\ SizeAll(stack, 1) < sz
    /\ stack' = Append(stack, Succeed(s, e))
    /\ obs' = NoObs

\* Error::Hinted(Box::new(top), msg)
new_Hinted(sz) ==
    /\ Len(stack) > 0 /\ SizeAll(stack, 1) < sz
    /\ stack' = Append(Pop(1), Hinted(Top))
    /\ obs' = NoObs

\* below + top
do_add ==
    /\ Len(stack) >= 2
    /\ stack' = Append(Pop(2), Error_add(Below, Top))
    /\ obs' = NoObs

\* below | top
do_bitor ==
    /\ Len(stack) >= 2
    /\ stack' = Append(Pop(2), Error_bitor(Below, Top))
    /\ obs' = NoObs

\* top.range() and top.similarity()
do_observe ==
    /\ Len(stack) > 0 /\ ~obs.seen
    /\ obs' = [e |-> Top, seen |-> TRUE, range |-> range(Top), sim |-> similarity(Top)]
    /\ UNCHANGED stack

\* a client that builds Errors and reads their range() and similarity()
ErrNext ==
    \/ \E s \in Scores, p \in Positions : new_Single(s, p, MaxStack, MaxSize) /\ ErrOnly
    \/ \E r \in Spans : new_Succeed(r[1], r[2], MaxStack, MaxSize) /\ ErrOnly
    \/ new_Hinted(MaxSize) /\ ErrOnly
    \/ do_add /\ ErrOnly
    \/ do_bitor /\ ErrOnly
    \/ do_observe /\ ErrOnly

\* a client that only combines Errors (the operators do not read the scores)
AlgNext ==
    \/ \E p \in Positions : new_Single(1, p, AlgStack, AlgSize) /\ ErrOnly
    \/ \E r \in Spans : new_Succeed(r[1], r[2], AlgStack, AlgSize) /\ ErrOnly
    \/ new_Hinted(AlgSize) /\ ErrOnly
    \/ do_add /\ ErrOnly
    \/ do_bitor /\ ErrOnly

(***************************************************************************)
(* set.rs and parsers.rs: the parsers                                      *)
(*                                                                         *)
(* A raw parser is a record [k, c, l]: k names the RawParser type, c is    *)
(* the captured element of single's closure, l the Parser handles it holds.*)
(* A value is a record [k, c, l]; a ParserResult is [tag, val, end, err]   *)
(* with tag "Ok", "Err", or "Fault" when the call panicked.                *)
(***************************************************************************)
NoErr     == Succeed(0, 0)
VChar(c)  == [k |-> "char", c |-> c, l |-> <<>>]
VUnit     == [k |-> "unit", c |-> "", l |-> <<>>]
VPair(x, y) == [k |-> "pair", c |-> "", l |-> <<x, y>>]
VMap(x)   == [k |-> "f", c |-> "", l |-> <<x>>]
Ok(v, end) == [tag |-> "Ok", val |-> v, end |-> end, err |-> NoErr]
Err(e)    == [tag |-> "Err", val |-> VUnit, end |-> 0, err |-> e]
Fault     == [tag |-> "Fault", val |-> VUnit, end |-> 0, err |-> NoErr]
NoRes     == [tag |-> "-", val |-> VUnit, end |-> 0, err |-> NoErr]

PSingle(c)   == [k |-> "single", c |-> c, l |-> <<>>]
PMap(p)      == [k |-> "map", c |-> "", l |-> <<p>>]
PDiscard(p)  == [k |-> "Discard", c |-> "", l |-> <<p>>]
PHint(p)     == [k |-> "hint", c |-> "", l |-> <<p>>]
POr(p, q)    == [k |-> "Or", c |-> "", l |-> <<p, q>>]
PAddPP(p, q) == [k |-> "AddPP", c |-> "", l |-> <<p, q>>]
PAddPM(p, q) == [k |-> "AddPM", c |-> "", l |-> <<p, q>>]
PAddMP(p, q) == [k |-> "AddMP", c |-> "", l |-> <<p, q>>]

\* impl Set for [T]: len
Set_len(in) == Len(in)
\* impl Set for [T]: get is &self[idx], which panics when idx >= len
Set_inbounds(in, idx) == idx < Len(in)
Set_get(in, idx) == in[idx + 1]

\* the closure of ParserContext::single
single_parse(value, in, start) ==
    IF ~Set_inbounds(in, start) THEN Fault
    ELSE IF value = Set_get(in, start) THEN Ok(VChar(value), start + 1)
    ELSE Err(Single(1, start))

\* (variant) the two errors are combined in the order e2 | e1
Or_parse_swapped(r1, r2) ==
    IF r1.tag # "Err" THEN r1
    ELSE IF r2.tag # "Err" THEN r2
    ELSE Err(Error_bitor(r2.err, r1.err))

\* Or::parse, given the two branches' results at start
Or_parse(r1, r2) ==
    IF r1.tag # "Err" THEN r1
    ELSE IF r2.tag # "Err" THEN r2
    ELSE Err(Error_bitor(r1.err, r2.err))

\* (variant) the Succeed(start..end1) of the p1 success arm is left out
AddPP_ok_bare(start, r1, r2) ==
    IF r2.tag = "Ok" THEN Ok(VPair(r1.val, r2.val), r2.end)
    ELSE IF r2.tag = "Err" THEN r2
    ELSE Fault

\* AddPP::parse, p1 succeeded: r2 is p2's result at end1
AddPP_ok(start, r1, r2) ==
    IF r2.tag = "Ok" THEN Ok(VPair(r1.val, r2.val), r2.end)
    ELSE IF r2.tag = "Err" THEN Err(Error_add(Succeed(start, r1.end), r2.err))
    ELSE Fault

\* AddPP::parse, p1 failed with e1: r2 is p2's result at resume = e1.range().end
AddPP_err(e1, resume, r2) ==
    IF r2.tag = "Ok" THEN Err(Error_add(e1, Succeed(resume, r2.end)))
    ELSE IF r2.tag = "Err" THEN Err(Error_add(e1, r2.err))
    ELSE Fault

RECURSIVE parse(_, _, _)
AddPP_parse(p1, p2, in, start) ==
    LET r1 == parse(p1, in, start) IN
    IF r1.tag = "Ok" THEN AddPP_ok(start, r1, parse(p2, in, r1.end))
    ELSE IF r1.tag = "Err"
         THEN LET r == range(r1.err) IN
              IF ~r.ok THEN Fault
              ELSE AddPP_err(r1.err, r.end, parse(p2, in, r.end))
    ELSE Fault

\* RawParser::parse of each raw parser type
parse(p, in, start) ==
    CASE p.k = "single" -> single_parse(p.c, in, start)
      [] p.k = "map" ->
            LET r == parse(p.l[1], in, start)
            IN IF r.tag = "Ok" THEN Ok(VMap(r.val), r.end) ELSE r
      [] p.k = "Discard" ->
            LET r == parse(p.l[1], in, start)
            IN IF r.tag = "Ok" THEN Ok(VUnit, r.end) ELSE r
      [] p.k = "hint" ->
            LET r == parse(p.l[1], in, start)
            IN IF r.tag = "Err" THEN Err(Hinted(r.err)) ELSE r
      [] p.k = "Or" ->
            LET r1 == parse(p.l[1], in, start)
            IN IF r1.tag = "Err" THEN Or_parse(r1, parse(p.l[2], in, start))
               ELSE r1
      [] p.k = "AddPP" -> AddPP_parse(p.l[1], p.l[2], in, start)
      [] p.k = "AddPM" ->
            LET r == AddPP_parse(p.l[1], p.l[2], in, start)
            IN IF r.tag = "Ok" THEN Ok(r.val.l[1], r.end) ELSE r
      [] OTHER ->
            LET r == AddPP_parse(p.l[1], p.l[2], in, start)
            IN IF r.tag = "Ok" THEN Ok(r.val.l[2], r.end) ELSE r

\* Parser::parse
Parser_parse(p, in) == parse(p, in, 0)

\* ---- the client of ParserContext ----
MaxNodes   == 5     \* raw parsers held by the client in all
MaxParsers == 3     \* Parser handles held by the client
MaxLen     == 3     \* longest input view
Elems      == {"a", "b"}   \* the elements of the input views
Literals   == {"a"}        \* the elements single is called with
Inputs     == UNION {[1..n -> Elems] : n \in 0..MaxLen}

RECURSIVE Nodes(_), NodesAll(_, _)
NodesAll(l, i) == IF i > Len(l) THEN 0 ELSE Nodes(l[i]) + NodesAll(l, i + 1)
Nodes(p) == 1 + NodesAll(p.l, 1)
\* Matcher<..> is what ! returns; everything else is a Parser<..>
IsMatcher(p) == p.k = "Discard"
\* the Output type of a raw parser, as a list of tokens
RECURSIVE Output(_)
Output(p) ==
    CASE p.k = "single" -> <<"E">>
      [] p.k = "map" -> <<"T">>
      [] p.k = "Discard" -> <<"()">>
      [] p.k = "hint" -> Output(p.l[1])
      [] p.k = "Or" -> Output(p.l[1])
      [] p.k = "AddPP" -> <<"(">> \o Output(p.l[1]) \o <<",">> \o Output(p.l[2]) \o <<")">>
      [] p.k = "AddPM" -> Output(p.l[1])
      [] OTHER -> Output(p.l[2])
PTop == parsers[Len(parsers)]
PBelow == parsers[Len(parsers) - 1]
PPop(n) == SubSeq(parsers, 1, Len(parsers) - n)
Room == NodesAll(parsers, 1) < MaxNodes

\* ParserContext::single(value)
ctx_single(c) ==
    /\ Room /\ Len(parsers) < MaxParsers
    /\ parsers' = Append(parsers, PSingle(c))
    /\ input' = <<>> /\ res' = NoRes

\* Parser::map(f)
Parser_map ==
    /\ Room /\ Len(parsers) > 0 /\ ~IsMatcher(PTop)
    /\ parsers' = Append(PPop(1), PMap(PTop))
    /\ input' = <<>> /\ res' = NoRes

\* impl Not for Parser
Parser_not ==
    /\ Room /\ Len(parsers) > 0 /\ ~IsMatcher(PTop)
    /\ parsers' = Append(PPop(1), PDiscard(PTop))
    /\ input' = <<>> /\ res' = NoRes

\* a client closure |input, start| p.parse(input, start).map_err(Hinted),
\* registered with ParserContext::new_parser
ctx_new_parser_hint ==
    /\ Room /\ Len(parsers) > 0 /\ ~IsMatcher(PTop)
    /\ parsers' = Append(PPop(1), PHint(PTop))
    /\ input' = <<>> /\ res' = NoRes

\* impl BitOr for Parser: both sides have the same Output
Parser_bitor ==
    /\ Room /\ Len(parsers) >= 2
    /\ ~IsMatcher(PBelow) /\ ~IsMatcher(PTop)
    /\ Output(PBelow) = Output(PTop)
    /\ parsers' = Append(PPop(2), POr(PBelow, PTop))
    /\ input' = <<>> /\ res' = NoRes

\* impl Add<Parser> for Parser, Add<Matcher> for Parser, Add<Parser> for Matcher
Parser_add ==
    /\ Room /\ Len(parsers) >= 2
    /\ ~(IsMatcher(PBelow) /\ IsMatcher(PTop))
    /\ parsers' = Append(PPop(2),
            IF IsMatcher(PTop) THEN PAddPM(PBelow, PTop)
            ELSE IF IsMatcher(PBelow) THEN PAddMP(PBelow, PTop)
            ELSE PAddPP(PBelow, PTop))
    /\ input' = <<>> /\ res' = NoRes

\* top.parse(&in)
do_parse(in) ==
    /\ Len(parsers) > 0 /\ res.tag = "-"
    /\ input' = in
    /\ res' = Parser_parse(PTop, in)
    /\ UNCHANGED parsers

ParseNext ==
    \/ \E c \in Literals : ctx_single(c) /\ ParseOnly
    \/ Parser_map /\ ParseOnly
    \/ Parser_not /\ ParseOnly
    \/ ctx_new_parser_hint /\ ParseOnly
    \/ Parser_bitor /\ ParseOnly
    \/ Parser_add /\ ParseOnly
    \/ \E in \in Inputs : do_parse(in) /\ ParseOnly

(***************************************************************************)
(* The specifications                                                      *)
(***************************************************************************)
\* Pool::new, ParserContext::new; the client holds no Error and no Parser yet
Init ==
    /\ owner = [a \in Addr |-> "none"]
    /\ content = [a \in Addr |-> <<0, 0>>]
    /\ values = <<>>
    /\ lock = 0
    /\ pc = [t \in Threads |-> "idle"]
    /\ arg = [t \in Threads |-> 0]
    /\ ret = [t \in Threads |-> "-"]
    /\ dropped = FALSE
    /\ destroyed = [a \in Addr |-> 0]
    /\ wild = 0
    /\ returned = {}
    /\ stack = <<>>
    /\ obs = NoObs
    /\ parsers = <<>>
    /\ input = <<>>
    /\ res = NoRes

SpecPool  == Init /\ [][PoolNext]_vars
SpecErr   == Init /\ [][ErrNext]_vars
SpecAlg   == Init /\ [][AlgNext]_vars
SpecParse == Init /\ [][ParseNext]_vars

(***************************************************************************)
(* The arena                                                               *)
(***************************************************************************)
\* the objects the program added and did not get back from remove
Registered == {a \in Addr : owner[a] = "pool"}

\* C1: after the arena is dropped, every object that was added and never
\* removed has been destroyed exactly once, no object at all has been
\* destroyed more than once, and every registry entry's destructor ran on the
\* object that was registered under that entry.
C1_DestroyedExactlyOnce ==
    dropped =>
        /\ \A a \in Registered : destroyed[a] = 1
        /\ \A a \in Addr : destroyed[a] <= 1
        /\ wild = 0
        /\ \A k \in DOMAIN values :
              /\ drop_ptr(k) \in Registered
              /\ stored_ptr(drop_ptr(k)) = k

\* C8: remove on a registered object returns Some and takes exactly that
\* object's entry out of the registry (every other registered object keeps
\* its entry), and the later drop does not destroy an object remove gave
\* back; remove on an object that is not registered returns None and leaves
\* the registry as it was.
C8_RemoveContract ==
    [][ /\ \A t \in Threads :
            (pc[t] = "rm_remove" /\ pc'[t] = "idle") =>
                IF arg[t] \in Registered
                THEN /\ ret'[t] = "Some"
                     /\ owner'[arg[t]] = "caller"
                     /\ Cardinality(DOMAIN values') = Cardinality(DOMAIN values) - 1
                     /\ \A b \in Registered \ {arg[t]} : stored_ptr(b) \in DOMAIN values'
                ELSE /\ ret'[t] = "None"
                     /\ values' = values
        /\ (~dropped /\ dropped') =>
                \A a \in returned : destroyed'[a] = 0
      ]_vars

\* C10: in every interleaving of the threads' add and remove calls the
\* registry holds exactly one entry for each object added and not yet
\* removed: none is missing, none is shared by two objects, none is left over.
C10_RegistryIsAddedMinusRemoved ==
    /\ \A a \in Registered : stored_ptr(a) \in DOMAIN values
    /\ \A a, b \in Registered : a # b => stored_ptr(a) # stored_ptr(b)
    /\ \A k \in DOMAIN values : \E a \in Registered : stored_ptr(a) = k

(***************************************************************************)
(* The error algebra                                                       *)
(***************************************************************************)
\* an f64 within [0, 1]
InUnit(x) == x.k = "num" /\ 0 <= x.n /\ x.n <= x.d
Numeric(x) == x.k \in {"num", "inf"}
LessEq(x, y) == partial_cmp(x, y) \in {"Less", "Equal"}
Sims(l) == [j \in 1..Len(l) |-> similarity(l[j])]
AllNumeric(l) == \A j \in 1..Len(l) : Numeric(similarity(l[j]))
IsMax(l, i) == \A j \in 1..Len(l) : LessEq(similarity(l[j]), similarity(l[i]))
FirstMax(l) == CHOOSE i \in 1..Len(l) : IsMax(l, i) /\ \A j \in 1..(i - 1) : ~IsMax(l, j)
LastMax(l) == CHOOSE i \in 1..Len(l) : IsMax(l, i) /\ \A j \in (i + 1)..Len(l) : ~IsMax(l, j)
ObservedOr == obs.seen /\ obs.e.tag = "Or"

\* C3: similarity() of every Error built from Single leaves with scores in
\* [0, 1] and Succeed ranges with + and | (and Hinted) is a number in [0, 1];
\* in particular an Add's sum over the length of its range is at most 1 and
\* the length is not 0.
C3_SimilarityInUnit == obs.seen => InUnit(obs.sim)

\* C4 as stated: range() of an Or list is the range() of the child with the
\* maximal similarity(), the FIRST such child in list order when several tie.
C4_FirstMaxRange ==
    (ObservedOr /\ AllNumeric(obs.e.l)) => obs.range = range(obs.e.l[FirstMax(obs.e.l)])

\* C4 as amended: range() of an Or list built with | whose children's
\* similarities are all numbers is the range() of the child with the maximal
\* similarity(), the LAST such child in list order when several tie; when a
\* child's similarity is NaN, range() panics.
C4_LastMaxRange ==
    ObservedOr =>
        IF AllNumeric(obs.e.l)
        THEN obs.range.ok /\ obs.range = range(obs.e.l[LastMax(obs.e.l)])
        ELSE ~obs.range.ok

\* an Or list was observed in which two children tie for the maximum and
\* have different ranges
C4_TieObserved ==
    /\ ObservedOr /\ AllNumeric(obs.e.l)
    /\ \E i, j \in 1..Len(obs.e.l) :
          /\ i < j /\ IsMax(obs.e.l, i) /\ IsMax(obs.e.l, j)
          /\ range(obs.e.l[i]) # range(obs.e.l[j])

\* the children of e when e is a list of the given kind, e itself otherwise
Flat(kind, e) == IF e.tag = kind THEN e.l ELSE <<e>>
\* no list of the Error has a list of its own kind as a direct child
RECURSIVE Flattened(_)
Flattened(e) ==
    \A i \in 1..Len(e.l) :
        /\ (e.tag \in {"Add", "Or"} => e.l[i].tag # e.tag)
        /\ Flattened(e.l[i])
NoDirectChild(e) == \A i \in 1..Len(e.l) : e.l[i].tag # e.tag

\* C9: for Errors a, b, c without directly nested lists of one kind,
\* (a + b) + c and a + (b + c) are the same Add list, the list of a's, b's
\* and c's elements in this order, and no result of + has an Add as a direct
\* child; the same holds of | and Or.
C9_Associative ==
    /\ \A i \in 1..Len(stack) : Flattened(stack[i])
    /\ Len(stack) = 3 =>
        LET a == stack[1]
            b == stack[2]
            c == stack[3]
        IN /\ Error_add(Error_add(a, b), c) = Error_add(a, Error_add(b, c))
           /\ Error_add(Error_add(a, b), c)
                = AddList(Flat("Add", a) \o Flat("Add", b) \o Flat("Add", c))
           /\ NoDirectChild(Error_add(Error_add(a, b), c))
           /\ Error_bitor(Error_bitor(a, b), c) = Error_bitor(a, Error_bitor(b, c))
           /\ Error_bitor(Error_bitor(a, b), c)
                = OrList(Flat("Or", a) \o Flat("Or", b) \o Flat("Or", c))
           /\ NoDirectChild(Error_bitor(Error_bitor(a, b), c))

\* three Errors are held, an Add list and an Or list among them
C9_ListOperands ==
    /\ Len(stack) = 3
    /\ \E i, j \in 1..3 : stack[i].tag = "Add" /\ stack[j].tag = "Or"

(***************************************************************************)
(* The combinators                                                         *)
(***************************************************************************)
\* built only from single, map, !, + and |
RECURSIVE CoreOnly(_)
CoreOnly(p) == p.k # "hint" /\ \A i \in 1..Len(p.l) : CoreOnly(p.l[i])
Parsed == res.tag # "-"
IsSequence(p) == p.k \in {"AddPP", "AddPM", "AddMP"}
Offsets == 0..Len(input)

\* C2: Parser::parse of a parser built only from single, map, !, + and |
\* returns Ok or Err for every input view, the empty one included: it does
\* not fault on a Set::get beyond the view's length.
C2_NeverFaults ==
    (Parsed /\ CoreOnly(PTop)) => res.tag \in {"Ok", "Err"}

\* C5: when p1 of p1 + p2 fails with e1, the result is an Error whatever p2
\* does at resume = e1.range().end: e1 + Succeed(resume..p2_end) when p2
\* succeeds there, e1 + e2 when it fails there, never a success.
C5_FirstFailsIsError ==
    (Parsed /\ PTop.k = "AddPP") =>
        \A s \in Offsets :
            LET r1 == parse(PTop.l[1], input, s)
                r  == parse(PTop, input, s)
            IN r1.tag = "Err" =>
                LET resume == range(r1.err).end
                    r2 == parse(PTop.l[2], input, resume)
                IN /\ r.tag = "Err"
                   /\ r2.tag = "Ok" => r.err = Error_add(r1.err, Succeed(resume, r2.end))
                   /\ r2.tag = "Err" => r.err = Error_add(r1.err, r2.err)

\* what p1 | p2 owes at one offset, r1 and r2 being the branches' results there
OrContract(r1, r2, r) ==
    /\ r1.tag = "Ok" => r = r1
    /\ (r1.tag = "Err" /\ r2.tag = "Ok") => r = r2
    /\ (r1.tag = "Err" /\ r2.tag = "Err") =>
            /\ r.tag = "Err"
            /\ r.err = OrList(Flat("Or", r1.err) \o Flat("Or", r2.err))

SeqContract(s, r1, r2, r) ==
    (r1.tag = "Ok" /\ r2.tag = "Err") =>
        /\ r.tag = "Err"
        /\ r.err = AddList(<<Succeed(s, r1.end)>> \o Flat("Add", r2.err))
        /\ range(r.err).ok
        /\ range(r.err).start = s

\* C7: when p1 of p1 + p2 started at s succeeds up to end1 and p2 fails at
\* end1 with e2, the error is Succeed(s..end1) + e2 and its range() starts
\* at s, whatever the shape of e2.
C7_SuccessThenFailure ==
    (Parsed /\ IsSequence(PTop)) =>
        /\ LET r1 == parse(PTop.l[1], input, 0)
           IN r1.tag = "Ok" => SeqContract(0, r1, parse(PTop.l[2], input, r1.end), res)
        /\ \A s \in Offsets :
              LET r1 == parse(PTop.l[1], input, s)
              IN r1.tag = "Ok" =>
                    SeqContract(s, r1, parse(PTop.l[2], input, r1.end),
                                parse(PTop, input, s))

\* p1 succeeded and p2 failed with an Add list
C7_FailedWithList ==
    /\ Parsed /\ PTop.k = "AddPP" /\ res.tag = "Err"
    /\ parse(PTop.l[1], input, 0).tag = "Ok"
    /\ parse(PTop.l[2], input, parse(PTop.l[1], input, 0).end).tag = "Err"
    /\ parse(PTop.l[2], input, parse(PTop.l[1], input, 0).end).err.tag = "Add"

====
